---- MODULE Spec2Model ----
(***************************************************************************)
(* A model of llm_connections: the Connections game session                *)
(* (src/connections.py: GameState, GuessEvaluator, Game) and the           *)
(* evaluation harness (src/eval.py: process_date, constrained_execution).  *)
(*                                                                         *)
(* Words are numbered 1..16, category k owning 4k-3..4k; ZZZ is a token    *)
(* outside the vocabulary.  An agent reply is a sequence of segments       *)
(* (plain text, a <scratchpad> region, a ``` fenced block), a fenced       *)
(* block holding the JSON text parse_guess hands to json.loads.            *)
(***************************************************************************)
EXTENDS Integers, Sequences, FiniteSets, TLC

\* ---------------------------------------------------------------- constants
ALLOWED_MISTAKES == 4
CATEGORY_SIZE == 4
NUM_CATEGORIES == 4
MAX_CONSECUTIVE_INVALID_ATTEMPTS == 3
SEED == 42

\* ------------------------------------------------------------------- bounds
\* LLM calls of one session that return; a later call never returns.
MaxTurns == 4
\* Earlier guesses in the history handed to evaluate_guess on its own.
MaxHistory == 1
MaxRuns == 2
MaxPlayCalls == 2
MaxSessions == 2
\* Dates of one harness run, numbered from FIRST_GAME_DATE on.
NumDates == 3
\* The harness's --parallelism argument.
Parallelism == 2

\* ------------------------------------------------------------------ puzzle
CORRECT == "correct"
INCORRECT == "incorrect"
THREE_OUT_OF_FOUR == "three out of four"
INVALID == "invalid"

GuessResult == {CORRECT, INCORRECT, THREE_OUT_OF_FOUR, INVALID}

Vocabulary == 1..(NUM_CATEGORIES * CATEGORY_SIZE)

ZZZ == NUM_CATEGORIES * CATEGORY_SIZE + 1

CategoryWords(k) == ((k - 1) * CATEGORY_SIZE + 1)..(k * CATEGORY_SIZE)

\* Category(name, words, level)
Category(k, lvl) == [name |-> k, words |-> CategoryWords(k), level |-> lvl]

\* One day's puzzle: the categories as the data lists them, each with the
\* level its first card's position gives it.
Puzzle ==
    <<Category(1, 1), Category(2, 0), Category(3, 3), Category(4, 2)>>

\* Guess(words, result)
Guess(words, result) == [words |-> words, result |-> result]

VARIABLES
    categories,                   \* GameState.categories / GuessEvaluator.categories
    words,                        \* GameState.words / GuessEvaluator.words
    remaining_mistakes,           \* GameState.remaining_mistakes
    num_correct_guesses,          \* GameState.num_correct_guesses
    guesses,                      \* GameState.guesses
    is_over,                      \* GameState.is_over
    consecutive_invalid_attempts, \* GameState.consecutive_invalid_attempts
    prompt,                       \* Game.prompt
    pc,                           \* where Game.play is: "loop", "returned", "raised"
    error,                        \* the exception that left play, "" if none
    won,                          \* play's return value
    llm_calls,                    \* calls of LLMGuesser.make_guess so far
    evaluate_calls,               \* calls of GuessEvaluator.evaluate_guess so far
    turn,                         \* the last do_turn: its reply and its parse
    play_calls,                   \* calls of Game.play so far
    eval_stats,                   \* run_eval's return value, <<>> before it returns
    ev,                           \* one call of evaluate_guess: arguments, result
    ledger,                       \* the lines of results/<model>_<hash>.jsonl
    semaphore,                    \* constrained_execution's semaphore: free slots
    task_pc,                      \* where each job is
    stats,                        \* each job's stats from run_eval
    returned,                     \* what each process_date returned
    sessions,                     \* run_eval calls of each job
    appends,                      \* ledger lines each job has written
    run,                          \* which run of the harness this is
    retry,                        \* the dates whose session failed in the run before
    harness_error,                \* the exception that left main, "" if none
    rng,                          \* the state of the random module's generator
    session_words                 \* GameState.words of each session created

gameVars ==
    <<categories, words, remaining_mistakes, num_correct_guesses, guesses,
      is_over, consecutive_invalid_attempts, prompt, pc, error, won,
      llm_calls, evaluate_calls, turn, play_calls, eval_stats>>

evalVars == <<ev>>

runVars == <<run, retry, harness_error>>

harnessVars ==
    <<ledger, semaphore, task_pc, stats, returned, sessions, appends, runVars>>

shuffleVars == <<rng, session_words>>

vars == <<gameVars, evalVars, harnessVars, shuffleVars>>

\* ------------------------------------------------------------ agent replies
\* The JSON text inside a fence, as json.loads sees it: not JSON at all, an
\* object (its values in key order), an array, or a number.
JsonText(json, values) == [json |-> json, values |-> values]

NoJson == JsonText("malformed", <<>>)

ArrayValue(tokens) == [kind |-> "array", items |-> tokens]

NumberValue == [kind |-> "number", items |-> <<>>]

Segment(tag, content) == [tag |-> tag, content |-> content]

\* {"<category>": [tokens]} in a fence, after a scratchpad that itself
\* quotes a fenced example.
ObjectReply(tokens) ==
    <<Segment("scratchpad", JsonText("object", <<ArrayValue(<<>>)>>)),
      Segment("fence", JsonText("object", <<ArrayValue(tokens)>>))>>

NoFenceReply ==
    <<Segment("scratchpad", JsonText("object", <<ArrayValue(<<1, 2, 3, 4>>)>>)),
      Segment("text", NoJson)>>

BadJsonReply == <<Segment("fence", NoJson)>>

TopArrayReply == <<Segment("fence", JsonText("array", <<>>))>>

TopNumberReply == <<Segment("fence", JsonText("number", <<>>))>>

EmptyObjectReply == <<Segment("fence", JsonText("object", <<>>))>>

NumberValueReply == <<Segment("fence", JsonText("object", <<NumberValue>>))>>

\* The replies whose fenced JSON is not {"<category>": [words]}.  (A value
\* that is a string, which "word in guess_tokens" searches for substrings,
\* is not among them.)
MalformedReplies ==
    {NoFenceReply, BadJsonReply, TopArrayReply, TopNumberReply,
     EmptyObjectReply, NumberValueReply}

\* Word lists the agent may send: the four categories (one of them out of
\* order and with a token outside the vocabulary), two lists sharing three
\* words with a category, two sharing fewer, and one of three words and ZZZ.
TokenLists ==
    {<<4, 3, 2, 1, ZZZ>>, <<5, 6, 7, 8>>, <<9, 10, 11, 12>>, <<13, 14, 15, 16>>,
     <<1, 2, 3, 5>>, <<5, 6, 7, 9>>, <<1, 2, 5, 6>>, <<1, 5, 9, 13>>,
     <<1, 2, 3, ZZZ>>}

AgentReplies == MalformedReplies \cup {ObjectReply(t) : t \in TokenLists}

NoReply == <<>>

\* ------------------------------------------------------------- parse_guess
NOT_FENCED == "Your guess was not between code fences"
BAD_JSON == "Your guess JSON was incorrectly formatted"
NOT_FOUR == "Your guess must contain 4 words"

\* ParsedGuess(valid, guess_set, reason); raised names the exception that
\* left parse_guess instead, "" when it returned.
ParsedGuess(valid, guess_set, reason) ==
    [raised |-> "", valid |-> valid, guess_set |-> guess_set, reason |-> reason]

Raised(exception) ==
    [raised |-> exception, valid |-> FALSE, guess_set |-> {}, reason |-> ""]

NoParse == ParsedGuess(FALSE, {}, "")

Range(s) == {s[i] : i \in DOMAIN s}

parse_guess(vocabulary, guess) ==
    LET NotScratchpad(s) == s.tag # "scratchpad"
        IsFence(s) == s.tag = "fence"
        \* re.sub removes the scratchpads, re.search finds the first fence
        fences == SelectSeq(SelectSeq(guess, NotScratchpad), IsFence)
    IN  IF fences = <<>> THEN ParsedGuess(FALSE, {}, NOT_FENCED)
        ELSE LET text == Head(fences).content
             IN  IF text.json = "malformed" THEN ParsedGuess(FALSE, {}, BAD_JSON)
                 \* guess_dict.values() of a list or a number
                 ELSE IF text.json # "object" THEN Raised("AttributeError")
                 \* list(guess_dict.values())[0] of {}
                 ELSE IF text.values = <<>> THEN Raised("IndexError")
                 ELSE LET guess_tokens == Head(text.values)
                      IN  \* word in guess_tokens, guess_tokens a number
                          IF guess_tokens.kind # "array" THEN Raised("TypeError")
                          ELSE LET guess_set ==
                                       {w \in Range(vocabulary) :
                                           w \in Range(guess_tokens.items)}
                               IN  IF Cardinality(guess_set) # CATEGORY_SIZE
                                   THEN ParsedGuess(FALSE, guess_set, NOT_FOUR)
                                   ELSE ParsedGuess(TRUE, guess_set, "")

\* ---------------------------------------------------------- evaluate_guess
RECURSIVE EvaluateFrom(_, _, _)
\* the for loop of evaluate_guess from category i on
EvaluateFrom(cats, i, guess_set) ==
    IF i > Len(cats) THEN INCORRECT
    ELSE IF cats[i].words = guess_set THEN CORRECT
    ELSE IF Cardinality(cats[i].words \cap guess_set) = 3 THEN THREE_OUT_OF_FOUR
    ELSE EvaluateFrom(cats, i + 1, guess_set)

\* evaluate_guess without its test of the guessed sets
evaluate_guess_no_duplicates(cats, guess_set, guessed_sets) ==
    Guess(guess_set, EvaluateFrom(cats, 1, guess_set))

\* evaluate_guess leaving its loop after the first category
evaluate_guess_first_only(cats, guess_set, guessed_sets) ==
    IF \E i \in DOMAIN guessed_sets : guessed_sets[i] = guess_set
    THEN Guess(guess_set, INVALID)
    ELSE Guess(guess_set, EvaluateFrom(SubSeq(cats, 1, 1), 1, guess_set))

evaluate_guess(cats, guess_set, guessed_sets) ==
    IF \E i \in DOMAIN guessed_sets : guessed_sets[i] = guess_set
    THEN Guess(guess_set, INVALID)
    ELSE Guess(guess_set, EvaluateFrom(cats, 1, guess_set))

\* --------------------------------------------------------------- GameState
guessed_sets == [i \in DOMAIN guesses |-> guesses[i].words]

IsCorrect(g) == g.result = CORRECT

correct_guesses == SelectSeq(guesses, IsCorrect)

\* the reused-word guard never firing
any_word_never_reused(guess_words) == FALSE

any_word_already_in_correct_category(guess_words) ==
    LET guessed_words_set ==
            UNION {correct_guesses[i].words : i \in DOMAIN correct_guesses}
    IN  guess_words \cap guessed_words_set # {}

\* add_guess charging a mistake for an invalid guess as well
add_guess_invalid_costs(guess) ==
    /\ guesses' = Append(guesses, guess)
    /\ IF guess.result = CORRECT
       THEN /\ num_correct_guesses' = num_correct_guesses + 1
            /\ consecutive_invalid_attempts' = 0
            /\ UNCHANGED remaining_mistakes
       ELSE IF guess.result = INVALID
       THEN /\ consecutive_invalid_attempts' = consecutive_invalid_attempts + 1
            /\ remaining_mistakes' = remaining_mistakes - 1
            /\ UNCHANGED num_correct_guesses
       ELSE /\ remaining_mistakes' = remaining_mistakes - 1
            /\ consecutive_invalid_attempts' = 0
            /\ UNCHANGED num_correct_guesses

\* add_guess resetting the consecutive-invalid counter on a correct guess only
add_guess_reset_on_correct_only(guess) ==
    /\ guesses' = Append(guesses, guess)
    /\ IF guess.result = CORRECT
       THEN /\ num_correct_guesses' = num_correct_guesses + 1
            /\ consecutive_invalid_attempts' = 0
            /\ UNCHANGED remaining_mistakes
       ELSE IF guess.result = INVALID
       THEN /\ consecutive_invalid_attempts' = consecutive_invalid_attempts + 1
            /\ UNCHANGED <<num_correct_guesses, remaining_mistakes>>
       ELSE /\ remaining_mistakes' = remaining_mistakes - 1
            /\ UNCHANGED <<num_correct_guesses, consecutive_invalid_attempts>>

add_guess(guess) ==
    /\ guesses' = Append(guesses, guess)
    /\ IF guess.result = CORRECT
       THEN /\ num_correct_guesses' = num_correct_guesses + 1
            /\ consecutive_invalid_attempts' = 0
            /\ UNCHANGED remaining_mistakes
       ELSE IF guess.result = INVALID
       THEN /\ consecutive_invalid_attempts' = consecutive_invalid_attempts + 1
            /\ UNCHANGED <<num_correct_guesses, remaining_mistakes>>
       ELSE /\ remaining_mistakes' = remaining_mistakes - 1
            /\ consecutive_invalid_attempts' = 0
            /\ UNCHANGED num_correct_guesses

\* -------------------------------------------------------------------- Game
START == "START_MESSAGE"
INVALID_GUESS == "Your guess was invalid."
REUSED_WORD ==
    "Your guess was invalid. You cannot use a word in more than one category."
CORRECT_MSG == "Correct! You've guessed n/4 groups."
THREE_MSG == "Incorrect, but three out of four words belong to the same category."
INCORRECT_MSG == "Incorrect"
DUPLICATE_MSG == "You have already guessed this group of words"

\* A prompt without the "You have ... remaining" tail: the start message
\* with the words, or the feedback of an invalid guess with its reason.
PlainPrompt(msg, reason) ==
    [msg |-> msg, reason |-> reason, n |-> 0, tail |-> FALSE, remaining |-> 0,
     plural |-> FALSE, correct |-> <<>>]

\* A loop that went on while the invalid counter was at most the cap.
LoopGuardInclusive ==
    /\ remaining_mistakes > 0
    /\ num_correct_guesses # NUM_CATEGORIES
    /\ consecutive_invalid_attempts <= MAX_CONSECUTIVE_INVALID_ATTEMPTS

\* The feedback of an evaluated guess: the message of its result (n the
\* groups guessed, in the message of a correct guess), the mistakes left,
\* "guess" or "guesses", and the correct guesses so far.
Feedback(result, n, remaining, correct) ==
    [msg |-> CASE result = CORRECT -> CORRECT_MSG
               [] result = THREE_OUT_OF_FOUR -> THREE_MSG
               [] result = INCORRECT -> INCORRECT_MSG
               [] result = INVALID -> DUPLICATE_MSG,
     reason |-> "",
     n |-> IF result = CORRECT THEN n ELSE 0,
     tail |-> TRUE,
     remaining |-> remaining,
     plural |-> remaining > 1,
     correct |-> correct]

LoopGuard ==
    /\ remaining_mistakes > 0
    /\ num_correct_guesses # NUM_CATEGORIES
    /\ consecutive_invalid_attempts < MAX_CONSECUTIVE_INVALID_ATTEMPTS

do_turn(guess_model_response) ==
    LET parsed_guess == parse_guess(words, guess_model_response)
    IN  /\ llm_calls' = llm_calls + 1
        /\ turn' = [response |-> guess_model_response, parsed |-> parsed_guess]
        /\ UNCHANGED <<categories, words, is_over, won, play_calls, eval_stats>>
        /\ IF parsed_guess.raised # ""
           THEN /\ pc' = "raised"
                /\ error' = parsed_guess.raised
                /\ UNCHANGED <<remaining_mistakes, num_correct_guesses, guesses,
                               consecutive_invalid_attempts, prompt,
                               evaluate_calls>>
           ELSE IF ~parsed_guess.valid
           THEN /\ prompt' = PlainPrompt(INVALID_GUESS, parsed_guess.reason)
                /\ add_guess(Guess({}, INVALID))
                /\ UNCHANGED <<pc, error, evaluate_calls>>
           ELSE IF any_word_already_in_correct_category(parsed_guess.guess_set)
           THEN /\ prompt' = PlainPrompt(REUSED_WORD, "")
                /\ add_guess(Guess(parsed_guess.guess_set, INVALID))
                /\ UNCHANGED <<pc, error, evaluate_calls>>
           ELSE LET guess_result ==
                        evaluate_guess(categories, parsed_guess.guess_set,
                                       guessed_sets)
                IN  /\ evaluate_calls' = evaluate_calls + 1
                    /\ add_guess(guess_result)
                    /\ prompt' = Feedback(guess_result.result,
                                          num_correct_guesses',
                                          remaining_mistakes',
                                          SelectSeq(guesses', IsCorrect))
                    /\ UNCHANGED <<pc, error>>

\* One pass of play's while loop, the LLM replying.
DoTurn(reply) ==
    /\ pc = "loop"
    /\ LoopGuard
    /\ llm_calls < MaxTurns
    /\ do_turn(reply)
    /\ UNCHANGED <<evalVars, harnessVars, shuffleVars>>

\* A play that reported a win whenever mistakes were left.
PlayReturnWonIfMistakesLeft ==
    /\ pc = "loop"
    /\ ~LoopGuard
    /\ pc' = "returned"
    /\ won' = (remaining_mistakes > 0)
    /\ UNCHANGED <<categories, words, remaining_mistakes, num_correct_guesses,
                   guesses, is_over, consecutive_invalid_attempts, prompt,
                   error, llm_calls, evaluate_calls, turn, play_calls,
                   eval_stats>>
    /\ UNCHANGED <<evalVars, harnessVars, shuffleVars>>

\* The loop guard is false: play returns whether all categories were found.
PlayReturn ==
    /\ pc = "loop"
    /\ ~LoopGuard
    /\ pc' = "returned"
    /\ won' = (num_correct_guesses = NUM_CATEGORIES)
    /\ UNCHANGED <<categories, words, remaining_mistakes, num_correct_guesses,
                   guesses, is_over, consecutive_invalid_attempts, prompt,
                   error, llm_calls, evaluate_calls, turn, play_calls,
                   eval_stats>>
    /\ UNCHANGED <<evalVars, harnessVars, shuffleVars>>

\* GameState.__init__ and Game.__init__
GameInit ==
    /\ categories = Puzzle
    /\ words = [i \in Vocabulary |-> i]
    /\ remaining_mistakes = ALLOWED_MISTAKES
    /\ num_correct_guesses = 0
    /\ guesses = <<>>
    /\ is_over = FALSE
    /\ consecutive_invalid_attempts = 0
    /\ prompt = PlainPrompt(START, "")
    /\ pc = "loop"
    /\ error = ""
    /\ won = FALSE
    /\ llm_calls = 0
    /\ evaluate_calls = 0
    /\ turn = [response |-> NoReply, parsed |-> NoParse]
    /\ play_calls = 1
    /\ eval_stats = <<>>

\* No call of evaluate_guess on its own, and no harness run.
NoEval == [guess_set |-> {}, guessed_sets |-> <<>>, result |-> ""]

EvalIdle == ev = NoEval

HarnessIdle ==
    /\ ledger = <<>>
    /\ semaphore = 0
    /\ task_pc = <<>>
    /\ stats = <<>>
    /\ returned = <<>>
    /\ sessions = <<>>
    /\ appends = <<>>
    /\ run = 0
    /\ retry = {}
    /\ harness_error = ""

\* No session created through the random module.
ShuffleIdle ==
    /\ rng = 0
    /\ session_words = <<>>

Init == GameInit /\ EvalIdle /\ HarnessIdle /\ ShuffleIdle

Next ==
    \/ \E reply \in AgentReplies : DoTurn(reply)
    \/ PlayReturn

Spec == Init /\ [][Next]_vars

\* ------------------------------------------------------- the session claims
\* The step is a do_turn that recorded a guess.
Recorded == Len(guesses') = Len(guesses) + 1

\* The step is a do_turn whose reply parsed to a valid 4-word guess.
ValidGuessTurn == llm_calls' = llm_calls + 1 /\ turn'.parsed.valid

LastGuess == guesses[Len(guesses)]

HasResult(result) == \E i \in DOMAIN guesses : guesses[i].result = result

\* C1: play ends only by its loop guard becoming false: whenever play is
\* no longer in its turn loop, the guard is false.
C1_PlayEndsWithGuardFalse == pc # "loop" => ~LoopGuard

\* C2: once play has left its turn loop, exactly one of num_correct_guesses
\* = 4, remaining_mistakes = 0, consecutive_invalid_attempts >= 3 holds.
C2_ExactlyOneAtTermination ==
    pc = "returned" =>
        Cardinality({c \in {"won", "mistakes", "invalid"} :
            \/ c = "won" /\ num_correct_guesses = NUM_CATEGORIES
            \/ c = "mistakes" /\ remaining_mistakes = 0
            \/ c = "invalid" /\ consecutive_invalid_attempts
                                    >= MAX_CONSECUTIVE_INVALID_ATTEMPTS}) = 1

\* play has returned after a mistake and then three invalid guesses in a row
C2_Witness ==
    /\ pc = "returned"
    /\ consecutive_invalid_attempts >= MAX_CONSECUTIVE_INVALID_ATTEMPTS
    /\ remaining_mistakes < ALLOWED_MISTAKES

\* C3: a guess recorded as Incorrect or ThreeOfFour takes one mistake and
\* leaves the correct count; one recorded as Correct adds one to the correct
\* count and leaves the mistakes; one recorded as Invalid leaves both.
C3_GuessEffects ==
    [][Recorded =>
        LET g == guesses'[Len(guesses')]
        IN  /\ g.result \in {INCORRECT, THREE_OUT_OF_FOUR} =>
                /\ remaining_mistakes' = remaining_mistakes - 1
                /\ num_correct_guesses' = num_correct_guesses
            /\ g.result = CORRECT =>
                /\ num_correct_guesses' = num_correct_guesses + 1
                /\ remaining_mistakes' = remaining_mistakes
            /\ g.result = INVALID =>
                /\ remaining_mistakes' = remaining_mistakes
                /\ num_correct_guesses' = num_correct_guesses]_vars

\* a session that has recorded a guess of each of the four results
C3_Witness == \A result \in GuessResult : HasResult(result)

\* C4 as stated: the counter goes up by one on an Invalid guess, to 0 on a
\* Correct guess, and an Incorrect or ThreeOfFour guess leaves it as it was.
C4_ResetOnlyByCorrect ==
    [][Recorded =>
        LET g == guesses'[Len(guesses')]
        IN  /\ g.result = INVALID =>
                consecutive_invalid_attempts' = consecutive_invalid_attempts + 1
            /\ g.result = CORRECT => consecutive_invalid_attempts' = 0
            /\ g.result \in {INCORRECT, THREE_OUT_OF_FOUR} =>
                consecutive_invalid_attempts' = consecutive_invalid_attempts]_vars

\* C4, amended: the counter goes up by one on an Invalid guess and to 0 on
\* every guess recorded as Correct, Incorrect or ThreeOfFour.
C4_ResetByEveryValidGuess ==
    [][Recorded =>
        LET g == guesses'[Len(guesses')]
        IN  /\ g.result = INVALID =>
                consecutive_invalid_attempts' = consecutive_invalid_attempts + 1
            /\ g.result \in {CORRECT, INCORRECT, THREE_OUT_OF_FOUR} =>
                consecutive_invalid_attempts' = 0]_vars

\* an Incorrect or ThreeOfFour guess right after an Invalid one has reset
\* the counter
C4_Witness ==
    /\ Len(guesses) >= 2
    /\ guesses[Len(guesses) - 1].result = INVALID
    /\ LastGuess.result \in {INCORRECT, THREE_OUT_OF_FOUR}
    /\ consecutive_invalid_attempts = 0

\* The category was guessed Correct in this session.
GuessedCorrect(category) ==
    \E i \in DOMAIN guesses :
        guesses[i].result = CORRECT /\ guesses[i].words = category.words

\* C5: a parsed 4-word guess with a word of a category already guessed
\* Correct is recorded Invalid without a call of evaluate_guess, leaves the
\* mistakes and the correct count, and gets the reused-word feedback.
C5_ReusedWordInvalid ==
    [][(/\ ValidGuessTurn
        /\ \E k \in DOMAIN categories :
              /\ GuessedCorrect(categories[k])
              /\ turn'.parsed.guess_set \cap categories[k].words # {})
       =>
       (/\ Recorded
        /\ guesses'[Len(guesses')] = Guess(turn'.parsed.guess_set, INVALID)
        /\ evaluate_calls' = evaluate_calls
        /\ remaining_mistakes' = remaining_mistakes
        /\ num_correct_guesses' = num_correct_guesses
        /\ prompt'.msg = REUSED_WORD
        /\ prompt'.msg # DUPLICATE_MSG)]_vars

\* the correct set itself was sent again and got the reused-word feedback
C5_Witness ==
    /\ Len(guesses) >= 2
    /\ turn.parsed.valid
    /\ LastGuess.result = INVALID
    /\ \E i \in 1..(Len(guesses) - 1) :
          guesses[i] = Guess(LastGuess.words, CORRECT)
    /\ prompt.msg = REUSED_WORD

\* C7: a valid 4-word guess whose set equals that of a guess already in the
\* log, whatever its result, is recorded Invalid, adds no correct guess and
\* takes no mistake.
C7_DuplicateInvalid ==
    [][(/\ ValidGuessTurn
        /\ \E i \in DOMAIN guesses :
              guesses[i].words = turn'.parsed.guess_set)
       =>
       (/\ Recorded
        /\ guesses'[Len(guesses')] = Guess(turn'.parsed.guess_set, INVALID)
        /\ num_correct_guesses' = num_correct_guesses
        /\ remaining_mistakes' = remaining_mistakes)]_vars

\* a set recorded as Incorrect or ThreeOfFour was sent again
C7_Witness ==
    /\ Len(guesses) >= 2
    /\ LastGuess.result = INVALID
    /\ \E i \in 1..(Len(guesses) - 1) :
          /\ guesses[i].words = LastGuess.words
          /\ guesses[i].result \in {INCORRECT, THREE_OUT_OF_FOUR}
    /\ prompt.msg = DUPLICATE_MSG

\* What the parser's contract recovers from a reply: the first fence outside
\* the scratchpads, whether its content is JSON, and the vocabulary words of
\* its word array.
ContractFences(reply) ==
    LET Outside(s) == s.tag = "fence"
    IN  SelectSeq(reply, Outside)

ContractRecovered(reply) ==
    LET text == Head(ContractFences(reply)).content
    IN  IF text.json = "object" /\ text.values # <<>>
           /\ Head(text.values).kind = "array"
        THEN Range(Head(text.values).items) \cap Vocabulary
        ELSE {}

ContractParse(reply) ==
    IF ContractFences(reply) = <<>> THEN ParsedGuess(FALSE, {}, NOT_FENCED)
    ELSE IF Head(ContractFences(reply)).content.json = "malformed"
    THEN ParsedGuess(FALSE, {}, BAD_JSON)
    ELSE IF Cardinality(ContractRecovered(reply)) # CATEGORY_SIZE
    THEN ParsedGuess(FALSE, ContractRecovered(reply), NOT_FOUR)
    ELSE ParsedGuess(TRUE, ContractRecovered(reply), "")

\* C8: parse_guess returns valid iff exactly 4 vocabulary words are
\* recovered, and otherwise invalid with the first reason that applies: no
\* fence, fenced content not JSON, recovered set not of size 4.
C8_ParseContract ==
    turn.response # NoReply =>
        /\ turn.parsed.raised = ""
        /\ turn.parsed.valid = ContractParse(turn.response).valid
        /\ turn.parsed.reason = ContractParse(turn.response).reason

\* C9: after a malformed reply do_turn has raised no error, has recorded an
\* Invalid guess and has set the corrective feedback as the next prompt.
C9_MalformedRecoverable ==
    turn.response \in MalformedReplies =>
        /\ pc # "raised"
        /\ error = ""
        /\ Len(guesses) >= 1
        /\ LastGuess = Guess({}, INVALID)
        /\ prompt.msg = INVALID_GUESS

\* ------------------------------------------------- evaluate_guess on its own
\* Every order in which the puzzle data may list the four categories.
CategoryOrders ==
    {[i \in 1..NUM_CATEGORIES |-> Puzzle[p[i]]] :
        p \in {q \in [1..NUM_CATEGORIES -> 1..NUM_CATEGORIES] :
                  \A i, j \in 1..NUM_CATEGORIES : q[i] = q[j] => i = j}}

\* Every set of 4 of the 16 words.
FourWordSets == {g \in SUBSET Vocabulary : Cardinality(g) = CATEGORY_SIZE}

\* Sets guessed before: a category's words, and three of them with a word
\* of another category.
HistoryPool == {CategoryWords(1), {1, 2, 3, 5}}

Histories == UNION {[1..n -> HistoryPool] : n \in 0..MaxHistory}

EvalInit ==
    /\ categories \in CategoryOrders
    /\ words = [i \in Vocabulary |-> i]
    /\ remaining_mistakes = ALLOWED_MISTAKES
    /\ num_correct_guesses = 0
    /\ guesses = <<>>
    /\ is_over = FALSE
    /\ consecutive_invalid_attempts = 0
    /\ prompt = PlainPrompt(START, "")
    /\ pc = "loop"
    /\ error = ""
    /\ won = FALSE
    /\ llm_calls = 0
    /\ evaluate_calls = 0
    /\ turn = [response |-> NoReply, parsed |-> NoParse]
    /\ play_calls = 1
    /\ eval_stats = <<>>
    /\ \E history \in Histories :
          ev = [guess_set |-> {}, guessed_sets |-> history, result |-> ""]
    /\ HarnessIdle
    /\ ShuffleIdle

\* evaluator.evaluate_guess(guess_set, guessed_sets)
Evaluate(guess_set) ==
    /\ ev.result = ""
    /\ ev' = [ev EXCEPT
                 !.guess_set = guess_set,
                 !.result = evaluate_guess(categories, guess_set,
                                           ev.guessed_sets).result]
    /\ UNCHANGED <<gameVars, harnessVars, shuffleVars>>

NextEval == \E guess_set \in FourWordSets : Evaluate(guess_set)

SpecEval == EvalInit /\ [][NextEval]_vars

\* The ordered rule of the evaluator's contract, over the categories as a
\* set: no order of the categories enters it.
ReferenceResult(guess_set, history) ==
    IF guess_set \in Range(history) THEN INVALID
    ELSE IF \E c \in Range(Puzzle) : c.words = guess_set THEN CORRECT
    ELSE IF \E c \in Range(Puzzle) : Cardinality(c.words \cap guess_set) = 3
    THEN THREE_OUT_OF_FOUR
    ELSE INCORRECT

\* C6: for every order of the categories, every 4-word guess set and every
\* history, evaluate_guess returns Invalid for a set of the history, else
\* Correct for a category's set, else ThreeOfFour for a set sharing exactly 3
\* words with a category, else Incorrect.
C6_EvaluateAsReference ==
    ev.result # "" => ev.result = ReferenceResult(ev.guess_set, ev.guessed_sets)

\* three words of the category listed last, the categories not in the
\* puzzle's own order
C6_Witness ==
    /\ ev.result = THREE_OUT_OF_FOUR
    /\ categories # Puzzle
    /\ Cardinality(categories[NUM_CATEGORIES].words \cap ev.guess_set) = 3

\* ----------------------------------------------------------------- harness
MODEL == "model"

Dates == 1..NumDates

\* hashlib.sha256(prompt.encode()).hexdigest()
Sha256(text) == <<"sha256", text>>

Levels == 0..(NUM_CATEGORIES - 1)

\* the key json.dumps writes for an integer level
LevelKey(level) == <<"0", "1", "2", "3">>[level + 1]

\* the first category whose words are the guess's, 0 if there is none
FirstMatch(cats, guess_words) ==
    LET matches == {i \in DOMAIN cats : cats[i].words = guess_words}
    IN  IF matches = {} THEN 0
        ELSE CHOOSE i \in matches : \A j \in matches : i <= j

\* A write_stats that took a category's place in the list for its level.
write_stats_by_position(template, model, game_date, cats, log) ==
    LET correct == SelectSeq(log, IsCorrect)
    IN  [model |-> model,
         prompt_hash |-> Sha256(template),
         game_date |-> game_date,
         levels |->
            [level \in Levels |->
                \E i \in DOMAIN correct :
                    FirstMatch(cats, correct[i].words) = level + 1]]

write_stats(template, model, game_date, cats, log) ==
    LET correct == SelectSeq(log, IsCorrect)
    IN  [model |-> model,
         prompt_hash |-> Sha256(template),
         game_date |-> game_date,
         levels |->
            [level \in Levels |->
                \E i \in DOMAIN correct :
                    /\ FirstMatch(cats, correct[i].words) # 0
                    /\ cats[FirstMatch(cats, correct[i].words)].level = level]]

\* json.dumps(stats), read back by json.loads: the levels keyed by strings
JsonLine(record) ==
    [model |-> record.model,
     prompt_hash |-> record.prompt_hash,
     game_date |-> record.game_date,
     levels |-> [key \in {LevelKey(level) : level \in Levels} |->
                    record.levels[CHOOSE level \in Levels : LevelKey(level) = key]]]

\* Guess logs of finished sessions: all four categories found; one found
\* and four mistakes; none found and three invalid replies.
WonLog ==
    <<Guess(CategoryWords(2), CORRECT), Guess(CategoryWords(1), CORRECT),
      Guess(CategoryWords(4), CORRECT), Guess(CategoryWords(3), CORRECT)>>

LostLog ==
    <<Guess(CategoryWords(2), CORRECT), Guess({1, 2, 3, 9}, THREE_OUT_OF_FOUR),
      Guess({1, 2, 9, 10}, INCORRECT), Guess({1, 9, 13, 14}, INCORRECT),
      Guess({3, 4, 9, 10}, INCORRECT)>>

InvalidLog == <<Guess({}, INVALID), Guess({}, INVALID), Guess({}, INVALID)>>

SessionLogs == {WonLog, LostLog}

\* The ledger an earlier run left: a line for each date of done, in date
\* order, of sessions that found no category.
StoredLedger(done) ==
    LET IsDone(d) == d \in done
        dates == SelectSeq([d \in Dates |-> d], IsDone)
    IN  [i \in DOMAIN dates |->
            JsonLine(write_stats(START, MODEL, dates[i], Puzzle, InvalidLog))]

\* process_date's loop over the file matching on the model alone
FindExistingAnyDate(lines, model, date_str) ==
    LET matches == {i \in DOMAIN lines : lines[i].model = model}
    IN  IF matches = {} THEN 0
        ELSE CHOOSE i \in matches : \A j \in matches : i <= j

\* process_date's loop over the file: the first line of this model and
\* date, 0 if there is none
FindExisting(lines, model, date_str) ==
    LET matches == {i \in DOMAIN lines :
                       /\ lines[i].model = model
                       /\ lines[i].game_date = date_str}
    IN  IF matches = {} THEN 0
        ELSE CHOOSE i \in matches : \A j \in matches : i <= j

\* main: one job per date, the ledger file as earlier runs left it
HarnessStart ==
    /\ \E done \in SUBSET Dates : ledger = StoredLedger(done)
    /\ semaphore = Parallelism
    /\ task_pc = [d \in Dates |-> "pending"]
    /\ stats = [d \in Dates |-> <<>>]
    /\ returned = [d \in Dates |-> <<>>]
    /\ sessions = [d \in Dates |-> 0]
    /\ appends = [d \in Dates |-> 0]
    /\ run = 1
    /\ retry = {}
    /\ harness_error = ""

\* job takes a slot of the semaphore and process_date checks the ledger
\* under file_lock: it returns the line it finds, or starts run_eval in a
\* thread. t is the job, date_str the date it was made for.
ProcessDateCheck(t, date_str) ==
    /\ task_pc[t] = "pending"
    /\ semaphore > 0
    /\ LET i == FindExisting(ledger, MODEL, date_str)
       IN  IF i # 0
           THEN /\ returned' = [returned EXCEPT ![t] = <<ledger[i]>>]
                /\ task_pc' = [task_pc EXCEPT ![t] = "done"]
                /\ UNCHANGED <<semaphore, sessions>>
           ELSE /\ task_pc' = [task_pc EXCEPT ![t] = "running"]
                /\ sessions' = [sessions EXCEPT ![t] = @ + 1]
                /\ semaphore' = semaphore - 1
                /\ UNCHANGED returned
    /\ UNCHANGED <<ledger, stats, appends, runVars, gameVars, evalVars,
                   shuffleVars>>

\* run_eval's session ends and write_stats builds the record
RunEvalDone(t, date_str, log) ==
    /\ task_pc[t] = "running"
    /\ stats' = [stats EXCEPT
                    ![t] = <<write_stats(START, MODEL, date_str, Puzzle, log)>>]
    /\ task_pc' = [task_pc EXCEPT ![t] = "append"]
    /\ UNCHANGED <<ledger, semaphore, returned, sessions, appends, runVars,
                   gameVars, evalVars, shuffleVars>>

\* A process_date that opened the ledger for writing instead of appending.
ProcessDateAppendTruncating(t) ==
    /\ task_pc[t] = "append"
    /\ ledger' = <<JsonLine(stats[t][1])>>
    /\ appends' = [appends EXCEPT ![t] = @ + 1]
    /\ returned' = [returned EXCEPT ![t] = stats[t]]
    /\ task_pc' = [task_pc EXCEPT ![t] = "done"]
    /\ semaphore' = semaphore + 1
    /\ UNCHANGED <<stats, sessions, runVars, gameVars, evalVars, shuffleVars>>

\* A process_date that looked for its key again under the lock it appends
\* under, and wrote nothing when another job had written the record.
ProcessDateAppendRechecked(t) ==
    /\ task_pc[t] = "append"
    /\ LET mine == stats[t][1]
           i == FindExisting(ledger, mine.model, mine.game_date)
       IN  IF i # 0
           THEN /\ returned' = [returned EXCEPT ![t] = <<ledger[i]>>]
                /\ UNCHANGED <<ledger, appends>>
           ELSE /\ ledger' = Append(ledger, JsonLine(mine))
                /\ appends' = [appends EXCEPT ![t] = @ + 1]
                /\ returned' = [returned EXCEPT ![t] = stats[t]]
    /\ task_pc' = [task_pc EXCEPT ![t] = "done"]
    /\ semaphore' = semaphore + 1
    /\ UNCHANGED <<stats, sessions, runVars, gameVars, evalVars, shuffleVars>>

\* process_date appends the record under file_lock and returns it; job
\* gives its slot back
ProcessDateAppend(t) ==
    /\ task_pc[t] = "append"
    /\ ledger' = Append(ledger, JsonLine(stats[t][1]))
    /\ appends' = [appends EXCEPT ![t] = @ + 1]
    /\ returned' = [returned EXCEPT ![t] = stats[t]]
    /\ task_pc' = [task_pc EXCEPT ![t] = "done"]
    /\ semaphore' = semaphore + 1
    /\ UNCHANGED <<stats, sessions, runVars, gameVars, evalVars, shuffleVars>>

\* A job that awaited fn() without entering the semaphore.
CheckLedgerNoSemaphore(d) ==
    /\ task_pc[d] = "pending"
    /\ LET i == FindExisting(ledger, MODEL, d)
       IN  IF i # 0
           THEN /\ returned' = [returned EXCEPT ![d] = <<ledger[i]>>]
                /\ task_pc' = [task_pc EXCEPT ![d] = "done"]
                /\ UNCHANGED <<semaphore, sessions>>
           ELSE /\ task_pc' = [task_pc EXCEPT ![d] = "running"]
                /\ sessions' = [sessions EXCEPT ![d] = @ + 1]
                /\ semaphore' = semaphore - 1
                /\ UNCHANGED returned
    /\ UNCHANGED <<ledger, stats, appends, runVars, gameVars, evalVars,
                   shuffleVars>>

\* main makes one job per date: the job of date d is job d.
CheckLedger(d) == ProcessDateCheck(d, d)

EvalDone(d, log) == RunEvalDone(d, d, log)

AppendStats(d) == ProcessDateAppend(d)

NextHarness ==
    \/ \E d \in Dates : CheckLedger(d)
    \/ \E d \in Dates, log \in SessionLogs : EvalDone(d, log)
    \/ \E d \in Dates : AppendStats(d)

InitHarness == GameInit /\ EvalIdle /\ HarnessStart /\ ShuffleIdle

SpecHarness == InitHarness /\ [][NextHarness]_vars

\* The ledger holds a record of this model, prompt and date.
HasRecord(d) ==
    \E i \in DOMAIN ledger :
        /\ ledger[i].model = MODEL
        /\ ledger[i].prompt_hash = Sha256(START)
        /\ ledger[i].game_date = d

\* C10: a process_date that finds, at its ledger check, a record of its
\* model, prompt and date returns a stored record of that key, starts no
\* session and leaves the ledger; and a job that is done does nothing more.
C10_IdempotentSkip ==
    [][\A d \in Dates :
          /\ (task_pc[d] = "pending" /\ task_pc'[d] # "pending" /\ HasRecord(d))
             => /\ task_pc'[d] = "done"
                /\ returned'[d] # <<>>
                /\ \E i \in DOMAIN ledger :
                      /\ returned'[d][1] = ledger[i]
                      /\ ledger[i].game_date = d
                      /\ ledger[i].model = MODEL
                      /\ ledger[i].prompt_hash = Sha256(START)
                /\ sessions'[d] = 0
                /\ appends'[d] = 0
                /\ ledger' = ledger
          /\ task_pc[d] = "done"
             => /\ task_pc'[d] = "done"
                /\ returned'[d] = returned[d]
                /\ sessions'[d] = sessions[d]
                /\ appends'[d] = appends[d]]_vars

\* one job has returned the stored record of its date without a session,
\* after an earlier date's line in the file, while another job appended
C10_Witness ==
    \E d, other \in Dates :
        /\ task_pc[d] = "done"
        /\ sessions[d] = 0
        /\ appends[d] = 0
        /\ returned[d] =
              <<JsonLine(write_stats(START, MODEL, d, Puzzle, InvalidLog))>>
        /\ ledger[1].game_date # d
        /\ appends[other] = 1

\* The jobs that hold a slot: process_date has started its session and has
\* not returned.
InFlight == {d \in DOMAIN task_pc : task_pc[d] \in {"running", "append"}}

\* C11: at every moment of a harness run at most max_runs sessions are in
\* flight, however many dates there are; the semaphore counts the free slots.
C11_BoundedParallelism ==
    /\ Cardinality(InFlight) <= Parallelism
    /\ semaphore = Parallelism - Cardinality(InFlight)

\* every slot is taken while a date with no record is still waiting
C11_Witness ==
    /\ Cardinality(InFlight) = Parallelism
    /\ semaphore = 0
    /\ \E d \in Dates : task_pc[d] = "pending" /\ ~HasRecord(d)

\* Every job of the run has returned.
AllDone == \A d \in Dates : task_pc[d] = "done"

\* The lines of the ledger that are records of this model, prompt and date.
RecordsOf(lines, d) ==
    {i \in DOMAIN lines :
        /\ lines[i].model = MODEL
        /\ lines[i].prompt_hash = Sha256(START)
        /\ lines[i].game_date = d}

\* C12: in a run over distinct dates with no failing session, every step
\* leaves the lines of the ledger as they are and adds at most one line at
\* its end, no job appends twice, and once all jobs have returned the ledger
\* holds exactly one record per date, appended by the job that ran the
\* session of that date.
C12_OneRecordPerDate ==
    [][/\ Len(ledger') \in {Len(ledger), Len(ledger) + 1}
       /\ SubSeq(ledger', 1, Len(ledger)) = ledger
       /\ \A d \in Dates :
             /\ appends'[d] <= 1
             /\ appends'[d] # appends[d]
                => /\ RecordsOf(ledger, d) = {}
                   /\ RecordsOf(ledger', d) = {Len(ledger')}
       /\ AllDone'
          => \A d \in Dates :
                /\ Cardinality(RecordsOf(ledger', d)) = 1
                /\ appends'[d] = sessions'[d]]_vars

\* a run that started from an empty ledger has ended: every date has run
\* its session and appended its record
C12_Witness ==
    /\ AllDone
    /\ Len(ledger) = NumDates
    /\ \A d \in Dates :
          /\ appends[d] = 1
          /\ sessions[d] = 1
          /\ Cardinality(RecordsOf(ledger, d)) = 1

\* ---------------------------------------------------------------------
\* Two process_date tasks of one key. main never makes them; a caller of
\* constrained_execution that lists a date twice does. There is one job per
\* date and a second job of the first date.
Jobs == 1..(NumDates + 1)

JobDate(j) == IF j > NumDates THEN 1 ELSE j

RaceStart ==
    /\ \E done \in SUBSET Dates : ledger = StoredLedger(done)
    /\ semaphore = Parallelism
    /\ task_pc = [j \in Jobs |-> "pending"]
    /\ stats = [j \in Jobs |-> <<>>]
    /\ returned = [j \in Jobs |-> <<>>]
    /\ sessions = [j \in Jobs |-> 0]
    /\ appends = [j \in Jobs |-> 0]
    /\ run = 1
    /\ retry = {}
    /\ harness_error = ""

NextRace ==
    \/ \E j \in Jobs : ProcessDateCheck(j, JobDate(j))
    \/ \E j \in Jobs, log \in SessionLogs : RunEvalDone(j, JobDate(j), log)
    \/ \E j \in Jobs : ProcessDateAppend(j)

InitRace == GameInit /\ EvalIdle /\ RaceStart /\ ShuffleIdle

SpecRace == InitRace /\ [][NextRace]_vars

\* C13: the check and the append of process_date are two steps, and the
\* append does not look at the ledger: a job that found no record of its key
\* at its check runs a session, and when its session is over it appends its
\* record at the end of the ledger whatever other jobs wrote in between.
C13_CheckThenAppendNotAtomic ==
    [][\A j \in Jobs :
          /\ (task_pc[j] = "pending" /\ task_pc'[j] # "pending"
                /\ RecordsOf(ledger, JobDate(j)) = {})
             => /\ task_pc'[j] = "running"
                /\ sessions'[j] = 1
                /\ ledger' = ledger
          /\ (task_pc[j] = "append" /\ task_pc'[j] # "append")
             => /\ task_pc'[j] = "done"
                /\ ledger' = Append(ledger, JsonLine(stats[j][1]))
                /\ ledger'[Len(ledger')].game_date = JobDate(j)
                /\ appends'[j] = 1]_vars

\* the two jobs of the first date both found no record, both ran a session
\* and both appended: the ledger holds two records of one key
C13_Witness ==
    /\ task_pc[1] = "done"
    /\ task_pc[NumDates + 1] = "done"
    /\ sessions[1] = 1
    /\ sessions[NumDates + 1] = 1
    /\ appends[1] = 1
    /\ appends[NumDates + 1] = 1
    /\ Cardinality(RecordsOf(ledger, 1)) = 2

\* ---------------------------------------------------------------------
\* Runs of the harness in which read_game_data can fail.
FILE_NOT_FOUND == "FileNotFoundError"

\* The jobs that have come to an end: returned, raised or cancelled.
Ended == {d \in DOMAIN task_pc : task_pc[d] \in {"done", "failed", "cancelled"}}

\* A process_date that wrote a record of the date although run_eval raised.
RunEvalRaisesRecorded(t, date_str) ==
    /\ task_pc[t] = "running"
    /\ task_pc' = [task_pc EXCEPT ![t] = "failed"]
    /\ ledger' = Append(ledger,
                        JsonLine(write_stats(START, MODEL, date_str, Puzzle,
                                             <<>>)))
    /\ semaphore' = semaphore + 1
    /\ UNCHANGED <<stats, returned, sessions, appends, runVars, gameVars,
                   evalVars, shuffleVars>>

\* read_game_data raises in run_eval: the exception leaves to_thread and
\* process_date before the append, and job gives its slot back.
RunEvalRaises(t, date_str) ==
    /\ task_pc[t] = "running"
    /\ task_pc' = [task_pc EXCEPT ![t] = "failed"]
    /\ semaphore' = semaphore + 1
    /\ UNCHANGED <<ledger, stats, returned, sessions, appends, runVars,
                   gameVars, evalVars, shuffleVars>>

\* gather hands the exception of a failed job to main, which raises it;
\* asyncio.run cancels the jobs that have not ended.
HarnessAbort ==
    /\ harness_error = ""
    /\ \E d \in Dates : task_pc[d] = "failed"
    /\ harness_error' = FILE_NOT_FOUND
    /\ task_pc' = [d \in Dates |->
                      IF d \in Ended THEN task_pc[d] ELSE "cancelled"]
    /\ semaphore' = semaphore + Cardinality(InFlight)
    /\ UNCHANGED <<ledger, stats, returned, sessions, appends, run, retry,
                   gameVars, evalVars, shuffleVars>>

\* The harness is started again on the ledger the run before left.
NextRun ==
    /\ run < MaxRuns
    /\ Ended = Dates
    /\ harness_error # "" \/ AllDone
    /\ run' = run + 1
    /\ retry' = {d \in Dates : task_pc[d] = "failed"}
    /\ harness_error' = ""
    /\ semaphore' = Parallelism
    /\ task_pc' = [d \in Dates |-> "pending"]
    /\ stats' = [d \in Dates |-> <<>>]
    /\ returned' = [d \in Dates |-> <<>>]
    /\ sessions' = [d \in Dates |-> 0]
    /\ appends' = [d \in Dates |-> 0]
    /\ UNCHANGED <<ledger, gameVars, evalVars, shuffleVars>>

NextFailures ==
    \/ \E d \in Dates : CheckLedger(d)
    \/ \E d \in Dates, log \in SessionLogs : EvalDone(d, log)
    \/ \E d \in Dates : AppendStats(d)
    \/ \E d \in Dates : RunEvalRaises(d, d)
    \/ HarnessAbort
    \/ NextRun

SpecFailures == InitHarness /\ [][NextFailures]_vars

\* C14: a job whose run_eval raises appends nothing, and no record of its
\* date is in the ledger while it is failed; a run with a failed job ends
\* with the exception leaving main, never normally; and the job of that date
\* in the next run, when it checks the ledger, finds no record and starts a
\* session.
C14_FailureLeavesNoRecord ==
    [][/\ \A d \in Dates :
             /\ (task_pc[d] # "failed" /\ task_pc'[d] = "failed")
                => /\ task_pc[d] = "running"
                   /\ ledger' = ledger
             /\ task_pc'[d] = "failed"
                => /\ appends'[d] = 0
                   /\ returned'[d] = <<>>
                   /\ RecordsOf(ledger', d) = {}
             /\ (d \in retry /\ task_pc[d] = "pending"
                   /\ task_pc'[d] \notin {"pending", "cancelled"})
                => /\ RecordsOf(ledger, d) = {}
                   /\ task_pc'[d] = "running"
                   /\ sessions'[d] = 1
       /\ (harness_error' # "" /\ harness_error = "")
          => \E d \in Dates : task_pc[d] = "failed"
       /\ (run' # run /\ \E d \in Dates : task_pc[d] = "failed")
          => harness_error = FILE_NOT_FOUND]_vars

\* the session of a date failed in the first run and the exception left
\* main; the second run ran the session of that date again and appended
C14_Witness ==
    \E d \in retry :
        /\ run = 2
        /\ task_pc[d] = "done"
        /\ sessions[d] = 1
        /\ appends[d] = 1
        /\ Cardinality(RecordsOf(ledger, d)) = 1

\* ---------------------------------------------------------------------
\* The session as run_eval runs it: play, result, write_stats; and play
\* called again on a game that has returned.

\* What Game.result logs.
WON_MSG == "LLM won"
LOST_INVALID_MSG == "LLM lost due to 3 consecutive invalid attempts"
LOST_MSG == "LLM lost"

result ==
    IF num_correct_guesses = NUM_CATEGORIES THEN WON_MSG
    ELSE IF consecutive_invalid_attempts >= MAX_CONSECUTIVE_INVALID_ATTEMPTS
    THEN LOST_INVALID_MSG
    ELSE LOST_MSG

\* run_eval, after play has returned: result hands the state to write_stats.
RunEvalReturn ==
    /\ pc = "returned"
    /\ play_calls = 1
    /\ eval_stats = <<>>
    /\ eval_stats' = <<write_stats(START, MODEL, 1, categories, guesses)>>
    /\ UNCHANGED <<categories, words, remaining_mistakes, num_correct_guesses,
                   guesses, is_over, consecutive_invalid_attempts, prompt, pc,
                   error, won, llm_calls, evaluate_calls, turn, play_calls>>
    /\ UNCHANGED <<evalVars, harnessVars, shuffleVars>>

\* A play that started a new game at each call.
PlayCallFresh ==
    /\ pc = "returned"
    /\ play_calls < MaxPlayCalls
    /\ pc' = "loop"
    /\ play_calls' = play_calls + 1
    /\ remaining_mistakes' = ALLOWED_MISTAKES
    /\ num_correct_guesses' = 0
    /\ consecutive_invalid_attempts' = 0
    /\ guesses' = <<>>
    /\ UNCHANGED <<categories, words, is_over, prompt, error, won, llm_calls,
                   evaluate_calls, turn, eval_stats>>
    /\ UNCHANGED <<evalVars, harnessVars, shuffleVars>>

\* play is called on a game whose play has returned: it is at its while.
PlayCall ==
    /\ pc = "returned"
    /\ play_calls < MaxPlayCalls
    /\ pc' = "loop"
    /\ play_calls' = play_calls + 1
    /\ UNCHANGED <<categories, words, remaining_mistakes, num_correct_guesses,
                   guesses, is_over, consecutive_invalid_attempts, prompt,
                   error, won, llm_calls, evaluate_calls, turn, eval_stats>>
    /\ UNCHANGED <<evalVars, harnessVars, shuffleVars>>

NextSession ==
    \/ \E reply \in AgentReplies : DoTurn(reply)
    \/ PlayReturn
    \/ RunEvalReturn
    \/ PlayCall

SpecSession == Init /\ [][NextSession]_vars

\* C15: in the record of a session that has ended, levels[l] is true exactly
\* when the log holds a Correct guess whose words are the words of a
\* category of level l.
C15_LevelsOfCorrectGuesses ==
    eval_stats # <<>>
    => \A l \in Levels :
          eval_stats[1].levels[l]
          <=> \E i \in DOMAIN guesses, k \in DOMAIN categories :
                 /\ guesses[i].result = CORRECT
                 /\ guesses[i].words = categories[k].words
                 /\ categories[k].level = l

\* a lost session found the category of level 0, second in the list, and not
\* the category of level 1, first in the list
C15_Witness ==
    /\ eval_stats # <<>>
    /\ ~won
    /\ eval_stats[1].levels[0]
    /\ ~eval_stats[1].levels[1]
    /\ categories[1].level = 1
    /\ categories[2].level = 0

\* The Correct guesses of the log whose words are the category's.
CorrectOf(k) ==
    {i \in DOMAIN guesses :
        guesses[i].result = CORRECT /\ guesses[i].words = categories[k].words}

\* C17: play returns True exactly when num_correct_guesses is 4 when it
\* returns, and the log then holds four Correct guesses, one of each
\* category; otherwise the session is lost, and result reports the loss as
\* one by consecutive invalid attempts exactly when that counter is 3 or
\* more.
C17_WonIffAllCategories ==
    pc = "returned"
    => /\ won <=> num_correct_guesses = NUM_CATEGORIES
       /\ won
          => /\ result = WON_MSG
             /\ Len(SelectSeq(guesses, IsCorrect)) = NUM_CATEGORIES
             /\ \A k \in DOMAIN categories : Cardinality(CorrectOf(k)) = 1
       /\ ~won
          => /\ result \in {LOST_INVALID_MSG, LOST_MSG}
             /\ result = LOST_INVALID_MSG
                <=> consecutive_invalid_attempts
                       >= MAX_CONSECUTIVE_INVALID_ATTEMPTS
             /\ result = LOST_MSG <=> remaining_mistakes = 0

\* a won session has returned: each category was guessed Correct once
C17_Witness ==
    /\ pc = "returned"
    /\ won
    /\ result = WON_MSG
    /\ \A k \in DOMAIN categories : Cardinality(CorrectOf(k)) = 1

\* The fields of GameState that add_guess writes.
sessionFields ==
    <<remaining_mistakes, num_correct_guesses, consecutive_invalid_attempts,
      guesses>>

\* C18: once the loop guard is false (won, out of mistakes, or at the cap of
\* invalid guesses) no step, a further call of play included, takes a turn,
\* calls the LLM or changes the counters and the log; and the counters and
\* the log change only in a turn of the loop, which adds one guess to the
\* log.
C18_TerminalAbsorbing ==
    [][/\ (~LoopGuard /\ pc # "raised")
          => /\ UNCHANGED sessionFields
             /\ llm_calls' = llm_calls
             /\ evaluate_calls' = evaluate_calls
             /\ ~LoopGuard'
       /\ sessionFields' # sessionFields
          => /\ pc = "loop"
             /\ LoopGuard
             /\ llm_calls' = llm_calls + 1
             /\ Len(guesses') = Len(guesses) + 1
             /\ SubSeq(guesses', 1, Len(guesses)) = guesses]_vars

\* play was called again on a lost game and has returned again, with the
\* log and the LLM calls of the first call
C18_Witness ==
    /\ play_calls = MaxPlayCalls
    /\ pc = "returned"
    /\ ~won
    /\ eval_stats # <<>>
    /\ llm_calls = Len(guesses)
    /\ Len(guesses) = MAX_CONSECUTIVE_INVALID_ATTEMPTS

\* ---------------------------------------------------------------------
\* The random module. Its generator is one object of the process, seeded
\* when connections is imported; here a linear congruential generator
\* stands for it: a state, a step, and a draw that is a function of the
\* state.
seed(a) == a % 65537

RandomNext(state) == (75 * state + 74) % 65537

\* the draw of _randbelow(n) from a state
randbelow(n, state) == state % n

Swap(x, i, j) == [x EXCEPT ![i] = x[j], ![j] = x[i]]

\* random.shuffle: for i from the last place down to the second, draw a
\* place j up to i and exchange x[i] and x[j]. Gives the list and the
\* generator's state after the draws.
RECURSIVE ShuffleFrom(_, _, _)
ShuffleFrom(x, i, state) ==
    IF i < 2 THEN [x |-> x, state |-> state]
    ELSE LET drawn == RandomNext(state)
             j == randbelow(i, drawn) + 1
         IN  ShuffleFrom(Swap(x, i, j), i - 1, drawn)

shuffle(x, state) == ShuffleFrom(x, Len(x), state)

\* the words of a set in the order the list comprehension meets them
RECURSIVE WordList(_)
WordList(set) ==
    IF set = {} THEN <<>>
    ELSE LET w == CHOOSE v \in set : \A u \in set : v <= u
         IN  <<w>> \o WordList(set \ {w})

RECURSIVE AllWords(_, _)
AllWords(cats, k) ==
    IF k > Len(cats) THEN <<>>
    ELSE WordList(cats[k].words) \o AllWords(cats, k + 1)

\* connections is imported: random.seed(42).
ShuffleStart ==
    /\ rng = seed(SEED)
    /\ session_words = <<>>

\* GameState.__init__ of one more session of the process: the words of the
\* categories, shuffled by the module's generator.
CreateSession(cats) ==
    /\ Len(session_words) < MaxSessions
    /\ LET shuffled == shuffle(AllWords(cats, 1), rng)
       IN  /\ session_words' =
                 Append(session_words,
                        [categories |-> cats, words |-> shuffled.x])
           /\ rng' = shuffled.state
    /\ UNCHANGED <<gameVars, evalVars, harnessVars>>

NextShuffle == \E cats \in CategoryOrders : CreateSession(cats)

InitShuffle == GameInit /\ EvalIdle /\ HarnessIdle /\ ShuffleStart

SpecShuffle == InitShuffle /\ [][NextShuffle]_vars

\* C16: two sessions of one puzzle, made under the one seed of the process,
\* have their words in the same order, however many sessions were made
\* before them.
C16_OrderFromSeedAndPuzzle ==
    \A i, j \in DOMAIN session_words :
        session_words[i].categories = session_words[j].categories
        => session_words[i].words = session_words[j].words

\* ---------------------------------------------------------------------
\* Whole sessions. play puts no limit on the turns; the agent here replies
\* with no fence, with a fenced array, with the next of four wrong guesses
\* or with the next category it has not found, so that sessions of every
\* length are walked through.
WrongGuesses == <<<<1, 2, 3, 5>>, <<5, 6, 7, 9>>, <<1, 2, 5, 6>>, <<1, 5, 9, 13>>>>

\* the wrong guesses the agent has sent: recorded as a mistake, or as
\* Invalid with their words when a word was of a found category
WrongsSent ==
    Cardinality({i \in DOMAIN guesses :
                    \E w \in DOMAIN WrongGuesses :
                        guesses[i].words = Range(WrongGuesses[w])})

LongReplies ==
    {NoFenceReply, TopArrayReply}
    \cup {ObjectReply(WrongGuesses[w]) :
            w \in {v \in DOMAIN WrongGuesses : v = WrongsSent + 1}}
    \cup {ObjectReply(WordList(categories[k].words)) :
            k \in {c \in DOMAIN categories : c = num_correct_guesses + 1}}

\* One pass of play's while loop.
LongTurn(reply) ==
    /\ pc = "loop"
    /\ LoopGuard
    /\ do_turn(reply)
    /\ UNCHANGED <<evalVars, harnessVars, shuffleVars>>

NextLong ==
    \/ \E reply \in LongReplies : LongTurn(reply)
    \/ PlayReturn

SpecLong == Init /\ [][NextLong]_vars

\* The guesses of the log with one of the results.
Count(results) ==
    Cardinality({i \in DOMAIN guesses : guesses[i].result \in results})

\* The length of the longest suffix of the log that is all Invalid.
InvalidSuffix ==
    LET n == Len(guesses)
        valid == {i \in DOMAIN guesses : guesses[i].result # INVALID}
    IN  IF valid = {} THEN n
        ELSE n - (CHOOSE i \in valid : \A j \in valid : j <= i)

\* C19: in every state of a session the counters are what the log says:
\* the Correct guesses, the mistakes left after the Incorrect and
\* ThreeOfFour guesses, the Invalid guesses at the end of the log; and each
\* counter is in its range.
C19_CountersAgreeWithLog ==
    /\ num_correct_guesses = Count({CORRECT})
    /\ remaining_mistakes
          = ALLOWED_MISTAKES - Count({INCORRECT, THREE_OUT_OF_FOUR})
    /\ consecutive_invalid_attempts = InvalidSuffix
    /\ remaining_mistakes \in 0..ALLOWED_MISTAKES
    /\ num_correct_guesses \in 0..NUM_CATEGORIES
    /\ consecutive_invalid_attempts \in 0..MAX_CONSECUTIVE_INVALID_ATTEMPTS

\* a session lost at the cap of invalid guesses, after a Correct guess, a
\* mistake and an earlier Invalid guess that a valid guess followed
C19_Witness ==
    /\ pc = "returned"
    /\ consecutive_invalid_attempts = MAX_CONSECUTIVE_INVALID_ATTEMPTS
    /\ InvalidSuffix = MAX_CONSECUTIVE_INVALID_ATTEMPTS
    /\ Count({CORRECT}) >= 1
    /\ Count({INCORRECT}) >= 1
    /\ Count({THREE_OUT_OF_FOUR}) >= 1
    /\ Count({INVALID}) > MAX_CONSECUTIVE_INVALID_ATTEMPTS
    /\ \E i \in DOMAIN guesses :
          guesses[i].result = INVALID /\ guesses[i].words # {}

\* The longest log: three mistakes and four Correct guesses, each after two
\* Invalid guesses.
LongestLog ==
    (ALLOWED_MISTAKES - 1 + NUM_CATEGORIES) * MAX_CONSECUTIVE_INVALID_ATTEMPTS

\* C20: the log of a session never has more than 21 guesses: it has at
\* most seven guesses that are not Invalid, and three Invalid guesses in a
\* row only at its end; and as long as no reply raised, the LLM was called
\* once for each guess of the log.
C20_AtMost21Guesses ==
    /\ Len(guesses) <= LongestLog
    /\ Count(GuessResult \ {INVALID}) <= ALLOWED_MISTAKES - 1 + NUM_CATEGORIES
    /\ \A i \in DOMAIN guesses :
          i + MAX_CONSECUTIVE_INVALID_ATTEMPTS <= Len(guesses)
          => \E j \in i..(i + MAX_CONSECUTIVE_INVALID_ATTEMPTS - 1) :
                guesses[j].result # INVALID
    /\ pc # "raised" => llm_calls = Len(guesses)

\* a won session of 21 guesses and 21 LLM calls
C20_Witness ==
    /\ pc = "returned"
    /\ won
    /\ Len(guesses) = LongestLog
    /\ llm_calls = LongestLog
    /\ remaining_mistakes = 1

====
